---- MODULE Spec2Model ----
(***************************************************************************)
(* The conversation state machine of the citizen chat (CitizenChat.tsx).   *)
(*                                                                         *)
(* State: the component's React state (messages, chatState,                *)
(* selectedProvider, reportData), the browser's queue of pending           *)
(* setTimeout callbacks, and whether the component is still mounted.       *)
(*                                                                         *)
(* Strings the code inspects (user input, option ids, keywords) are        *)
(* sequences of one-character strings, so that toLowerCase, includes,      *)
(* trim and parseInt are computed character by character.                  *)
(*                                                                         *)
(* Time is counted in ticks of TickMs milliseconds; every delay of the     *)
(* code is a multiple of it.  A pending timer carries the ticks it has     *)
(* left; timers that are due fire in the order they were created, and a    *)
(* user event may arrive before or after any due timer.                    *)
(***************************************************************************)
EXTENDS Integers, Sequences, FiniteSets, TLC

VARIABLES
    messages,          \* useState<ChatMessage[]>: the transcript
    chatState,         \* useState<ChatState>
    selectedProvider,  \* useState<PipaProvider | null>: catalog position, 0 = null
    reportData,        \* useState<{type?, duration?, affected?}>: 0 = undefined
    timers,            \* pending setTimeout callbacks, in creation order
    mounted,           \* FALSE once the component has been unmounted
    lateCalls,         \* state-setter calls made by callbacks after the unmount
    nInputs,           \* user inputs handled so far
    mockProviders      \* the provider catalog (read only)

vars == <<messages, chatState, selectedProvider, reportData, timers, mounted,
          lateCalls, nInputs, mockProviders>>

(***************************************************************************)
(* Bounds of the model.                                                    *)
(***************************************************************************)
MaxInputs == 3
MaxTurns == 5
MaxProviders == 2

(***************************************************************************)
(* Strings.                                                                *)
(***************************************************************************)
UpperCase == <<"A","B","C","D","E","F","G","H","I","J","K","L","M","N","O","P",
               "Q","R","S","T","U","V","W","X","Y","Z">>
LowerCase == <<"a","b","c","d","e","f","g","h","i","j","k","l","m","n","o","p",
               "q","r","s","t","u","v","w","x","y","z">>
Digits == <<"0","1","2","3","4","5","6","7","8","9">>

IsWhite(c) == c \in {" ", "\t", "\n"}
IsDigit(c) == \E i \in 1..Len(Digits) : Digits[i] = c
DigitVal(c) == (CHOOSE i \in 1..Len(Digits) : Digits[i] = c) - 1

LowerChar(c) ==
    IF \E i \in 1..Len(UpperCase) : UpperCase[i] = c
    THEN LowerCase[CHOOSE i \in 1..Len(UpperCase) : UpperCase[i] = c]
    ELSE c

\* String.prototype.toLowerCase
toLowerCase(s) == [i \in 1..Len(s) |-> LowerChar(s[i])]

\* String.prototype.includes
includes(s, sub) ==
    \E i \in 0..(Len(s) - Len(sub)) : SubSeq(s, i + 1, i + Len(sub)) = sub

RECURSIVE TrimStart(_)
TrimStart(s) ==
    IF s # <<>> /\ IsWhite(Head(s)) THEN TrimStart(Tail(s)) ELSE s

RECURSIVE TrimEnd(_)
TrimEnd(s) ==
    IF s # <<>> /\ IsWhite(s[Len(s)]) THEN TrimEnd(SubSeq(s, 1, Len(s) - 1)) ELSE s

\* String.prototype.trim
trim(s) == TrimEnd(TrimStart(s))

RECURSIVE DigitRun(_, _)
\* the value of the longest prefix of digits of s, read after acc
DigitRun(s, acc) ==
    IF s # <<>> /\ IsDigit(Head(s))
    THEN DigitRun(Tail(s), 10 * acc + DigitVal(Head(s)))
    ELSE acc

\* a JavaScript number as far as the program needs it: NaN or an integer
NaN == [nan |-> TRUE, val |-> 0]
Num(n) == [nan |-> FALSE, val |-> n]

\* parseInt(string): leading white space is skipped, one sign is read, then the
\* longest run of digits; NaN when no digit follows.
parseInt(s) ==
    LET t == TrimStart(s)
        neg == t # <<>> /\ Head(t) = "-"
        u == IF t # <<>> /\ Head(t) \in {"-", "+"} THEN Tail(t) ELSE t
    IN  IF u = <<>> \/ ~IsDigit(Head(u)) THEN NaN
        ELSE IF neg THEN Num(0 - DigitRun(u, 0)) ELSE Num(DigitRun(u, 0))

\* a >= lo && a <= hi: every comparison with NaN is false
InRange(a, lo, hi) == ~a.nan /\ a.val >= lo /\ a.val <= hi

\* a || 1 on a number: NaN and 0 are falsy
OrOne(a) == IF a.nan \/ a.val = 0 THEN 1 ELSE a.val

(***************************************************************************)
(* The strings of the program.                                             *)
(***************************************************************************)
s1 == <<"1">>
s2 == <<"2">>
s3 == <<"3">>
s4 == <<"4">>
sConfirm == <<"c","o","n","f","i","r","m">>
sCancel == <<"c","a","n","c","e","l">>
sYes == <<"y","e","s">>
sNo == <<"n","o">>
sMenu == <<"m","e","n","u">>
kwPedir == <<"p","e","d","i","r">>
kwAgua == <<"a","g","u","a">>
kwReportar == <<"r","e","p","o","r","t","a","r">>
kwProblema == <<"p","r","o","b","l","e","m","a">>
kwPrecios == <<"p","r","e","c","i","o","s">>
kwPedidos == <<"p","e","d","i","d","o","s">>
kwConfirmar == <<"c","o","n","f","i","r","m","a","r">>
kwSi == <<"s","í">>

Option(id, label) == [id |-> id, label |-> label]

mainMenuOptions ==
    << Option(s1, "Pedir agua (pipa)"), Option(s2, "Reportar un problema"),
       Option(s3, "Ver precios en mi zona"), Option(s4, "Mis pedidos") >>

reportTypes ==
    << Option(s1, "Fuga de agua"), Option(s2, "Sin agua en mi colonia"),
       Option(s3, "Agua contaminada"), Option(s4, "Daño a infraestructura") >>

durationOptions ==
    << Option(s1, "Hoy"), Option(s2, "1-3 días"), Option(s3, "Más de 3 días") >>

ordersOptions == << Option(sYes, "Sí, pedir agua"), Option(sNo, "Volver al menú") >>

confirmOptions == << Option(sConfirm, "Confirmar pedido"), Option(sCancel, "Cancelar") >>

afterReportOptions ==
    << Option(s1, "Sí, ver pipas disponibles"), Option(sMenu, "Volver al menú") >>

NoOptions == <<>>

ChatStates ==
    { "welcome", "main_menu", "request_location", "show_providers", "confirm_order",
      "order_confirmed", "report_type", "report_location", "report_duration",
      "report_affected", "report_confirmed", "prices_location", "show_prices" }

(***************************************************************************)
(* The provider catalog.                                                   *)
(***************************************************************************)
ProviderNames == <<"Pipas A", "Pipas B", "Pipas C", "Pipas D", "Pipas E">>

Provider(i, avail) ==
    [ id |-> i, name |-> ProviderNames[i], pricePerLiter |-> 800 + 50 * i,
      estimatedArrival |-> 15 * i, available |-> avail ]

Catalogs ==
    { [i \in 1..MaxProviders |-> Provider(i, a[i])] : a \in [1..MaxProviders -> BOOLEAN] }

RECURSIVE FilterAvailable(_, _)
\* the positions i >= from of the catalog whose provider is available, in order
FilterAvailable(cat, from) ==
    IF from > Len(cat) THEN <<>>
    ELSE IF cat[from].available
         THEN <<from>> \o FilterAvailable(cat, from + 1)
         ELSE FilterAvailable(cat, from + 1)

\* mockProviders.filter(p => p.available)
AvailableProviders(cat) == FilterAvailable(cat, 1)

(***************************************************************************)
(* Messages.                                                               *)
(***************************************************************************)
TickMs == 500
Delay(ms) == ms \div TickMs

EmptyReport == [type |-> 0, duration |-> 0, affected |-> 0]

\* The text of a message: the template and the values interpolated in it.  A
\* name "undefined", a price 0, a type 0 or a duration 0 is what the template
\* prints for an undefined value; hasId: a generated id (from Date.now()) is in it.
Content(tpl) ==
    [ tpl |-> tpl, input |-> <<>>, name |-> "", price |-> 0, list |-> <<>>,
      type |-> 0, duration |-> 0, affected |-> 0, hasId |-> FALSE ]

\* ${p?.name} and ${p?.pricePerLiter} for the provider at position p (0: null)
NameOf(cat, p) == IF p = 0 THEN "undefined" ELSE cat[p].name
PriceOf(cat, p) == IF p = 0 THEN 0 ELSE cat[p].pricePerLiter

\* by: the number of the user input whose handling caused the message (0: the mount)
BotMessage(content, options, by) ==
    [role |-> "bot", content |-> content, options |-> options, by |-> by,
     input |-> <<>>, at |-> ""]

\* input: the string handed to processUserInput for this message (by: its number);
\* at: the chatState processUserInput switched on
UserMessage(shown, input, by, at) ==
    [role |-> "user", content |-> [Content("user") EXCEPT !.input = shown],
     options |-> NoOptions, by |-> by, input |-> input, at |-> at]

\* addMessage with the new message put first
addMessageFirst(prev, message) == <<message>> \o prev

\* setMessages(prev => [...prev, message])
addMessage(prev, message) == Append(prev, message)

\* A pending setTimeout callback: which callback, the ticks left, the input that
\* caused it (0: the mount), and the values of the handler's scope it closes over.
Timer(cb, ms, by, input, provider, rd, affected) ==
    [ cb |-> cb, rem |-> Delay(ms), by |-> by, input |-> input,
      provider |-> provider, reportData |-> rd, affected |-> affected ]

SimpleTimer(cb, ms, by) == Timer(cb, ms, by, <<>>, 0, EmptyReport, 0)

NoChange == "no_change"

(***************************************************************************)
(* processUserInput: what one call does at once (the state it sets and the *)
(* callbacks it schedules); the callbacks' own effects are in Callback.    *)
(***************************************************************************)
Effect(ts, sp, rd) == [timers |-> ts, selectedProvider |-> sp, reportData |-> rd]

\* MainMenuBranch with the final else answering like the branch before it
MainMenuBranchNoElse(input) ==
    LET lowerInput == toLowerCase(input)
    IN  IF input = s1 \/ includes(lowerInput, kwPedir) \/ includes(lowerInput, kwAgua)
        THEN "ask_location"
        ELSE IF input = s2 \/ includes(lowerInput, kwReportar)
                           \/ includes(lowerInput, kwProblema)
        THEN "ask_report_type"
        ELSE IF input = s3 \/ includes(lowerInput, kwPrecios)
        THEN "ask_prices_location"
        ELSE "orders_reply"

\* MainMenuBranch with the ids of the second and third branch exchanged
MainMenuBranchIdsSwapped(input) ==
    LET lowerInput == toLowerCase(input)
    IN  IF input = s1 \/ includes(lowerInput, kwPedir) \/ includes(lowerInput, kwAgua)
        THEN "ask_location"
        ELSE IF input = s3 \/ includes(lowerInput, kwReportar)
                           \/ includes(lowerInput, kwProblema)
        THEN "ask_report_type"
        ELSE IF input = s2 \/ includes(lowerInput, kwPrecios)
        THEN "ask_prices_location"
        ELSE IF input = s4 \/ includes(lowerInput, kwPedidos)
        THEN "orders_reply"
        ELSE "not_understood"

\* case 'main_menu'
MainMenuBranch(input) ==
    LET lowerInput == toLowerCase(input)
    IN  IF input = s1 \/ includes(lowerInput, kwPedir) \/ includes(lowerInput, kwAgua)
        THEN "ask_location"
        ELSE IF input = s2 \/ includes(lowerInput, kwReportar)
                           \/ includes(lowerInput, kwProblema)
        THEN "ask_report_type"
        ELSE IF input = s3 \/ includes(lowerInput, kwPrecios)
        THEN "ask_prices_location"
        ELSE IF input = s4 \/ includes(lowerInput, kwPedidos)
        THEN "orders_reply"
        ELSE "not_understood"

\* ChosenProvider with the number used as a position of the whole catalog
ChosenProviderUnfiltered(input, cat) ==
    LET providerNum == parseInt(input)
        available == AvailableProviders(cat)
    IN  IF InRange(providerNum, 1, Len(available))
        THEN providerNum.val
        ELSE 0

\* ChosenProvider with the number looked up in the list of the last provider-list
\* message instead of a list filtered anew
ChosenProviderAsListed(input, cat) ==
    LET providerNum == parseInt(input)
        lists == {i \in 1..Len(messages) : messages[i].content.tpl = "providers"}
        last == CHOOSE i \in lists : \A k \in lists : k <= i
        listed == IF lists = {} THEN <<>> ELSE messages[last].content.list
    IN  IF InRange(providerNum, 1, Len(listed))
        THEN listed[providerNum.val]
        ELSE 0

\* case 'show_providers': the position in the catalog of the provider chosen, 0
\* when the input is not a number of the available list
ChosenProvider(input, cat) ==
    LET providerNum == parseInt(input)
        available == AvailableProviders(cat)
    IN  IF InRange(providerNum, 1, Len(available))
        THEN available[providerNum.val]
        ELSE 0

\* IsConfirm without the comparison with the option id
IsConfirmKeywordOnly(input) ==
    LET lowerInput == toLowerCase(input)
    IN  includes(lowerInput, kwConfirmar) \/ includes(lowerInput, kwSi)

\* case 'confirm_order': the condition of the if
IsConfirm(input) ==
    LET lowerInput == toLowerCase(input)
    IN  input = sConfirm \/ includes(lowerInput, kwConfirmar) \/ includes(lowerInput, kwSi)

\* ChosenReportType without the test of the range
ChosenReportTypeAny(input) == parseInt(input).val

\* case 'report_type': the index chosen, 0 when the input is not one of 1..4
ChosenReportType(input) ==
    LET reportTypeNum == parseInt(input)
    IN  IF InRange(reportTypeNum, 1, Len(reportTypes)) THEN reportTypeNum.val ELSE 0

\* case 'report_duration': the index chosen, 0 when the input is not one of 1..3
ChosenDuration(input) ==
    LET durationNum == parseInt(input)
    IN  IF InRange(durationNum, 1, Len(durationOptions)) THEN durationNum.val ELSE 0

\* AffectedCount without the || 1
AffectedCountNoDefault(input) == parseInt(input).val

\* case 'report_affected': parseInt(input) || 1
AffectedCount(input) == OrOne(parseInt(input))

\* ConfirmOrderTimer closing over the selectedProvider of the first render (null)
ConfirmOrderTimerFirstRender(input, by, sp) ==
    IF IsConfirm(input)
    THEN Timer("order_confirmed", 500, by, input, 0, EmptyReport, 0)
    ELSE SimpleTimer("order_cancelled", 500, by)

\* The callback processUserInput schedules in confirm_order
ConfirmOrderTimer(input, by, sp) ==
    IF IsConfirm(input)
    THEN Timer("order_confirmed", 500, by, input, sp, EmptyReport, 0)
    ELSE SimpleTimer("order_cancelled", 500, by)

\* The callback processUserInput schedules in report_affected: it closes over the
\* reportData of the render that handled the input and over the local affected
ReportAffectedTimer(input, by, rd) ==
    Timer("report_confirmed", 500, by, input, 0, rd, AffectedCount(input))

\* WithType with the fields already in reportData spread last
WithTypeKept(rd, n) == IF rd.type # 0 THEN rd ELSE [rd EXCEPT !.type = n]

\* { ...reportData, type: reportTypes[n - 1].label }
WithType(rd, n) == [rd EXCEPT !.type = n]

processUserInput(state, input, by, sp, rd, cat) ==
    CASE state = "main_menu" ->
            Effect(<<SimpleTimer(MainMenuBranch(input), 500, by)>>, sp, rd)
      [] state \in {"request_location", "prices_location"} ->
            Effect(<<Timer("location_received", 500, by, input, 0, EmptyReport, 0)>>,
                   sp, rd)
      [] state = "show_providers" ->
            LET provider == ChosenProvider(input, cat)
            IN  IF provider # 0
                THEN Effect(<<Timer("provider_selected", 500, by, input, provider,
                                    EmptyReport, 0)>>, provider, rd)
                ELSE Effect(<<>>, sp, rd)
      [] state = "confirm_order" ->
            Effect(<<ConfirmOrderTimer(input, by, sp)>>, sp, rd)
      [] state = "report_type" ->
            LET n == ChosenReportType(input)
            IN  IF n # 0
                THEN Effect(<<SimpleTimer("ask_report_location", 500, by)>>, sp,
                            WithType(rd, n))
                ELSE Effect(<<>>, sp, rd)
      [] state = "report_location" ->
            Effect(<<SimpleTimer("ask_duration", 500, by)>>, sp, rd)
      [] state = "report_duration" ->
            LET n == ChosenDuration(input)
            IN  IF n # 0
                THEN Effect(<<SimpleTimer("ask_affected", 500, by)>>, sp,
                            [rd EXCEPT !.duration = n])
                ELSE Effect(<<>>, sp, rd)
      [] state = "report_affected" ->
            Effect(<<ReportAffectedTimer(input, by, rd)>>, sp,
                   [rd EXCEPT !.affected = AffectedCount(input)])
      [] OTHER ->
            Effect(<<SimpleTimer("default_menu", 500, by)>>, sp, rd)

(***************************************************************************)
(* The setTimeout callbacks: the message each one adds, the state it sets  *)
(* (NoChange: none) and the callbacks it schedules in turn.                *)
(***************************************************************************)
Run(content, options, goto, then) ==
    [content |-> content, options |-> options, goto |-> goto, then |-> then]

\* showProviders with the setChatState left out
showProvidersKeepState(cat) ==
    Run([Content("providers") EXCEPT !.list = AvailableProviders(cat)],
        NoOptions, NoChange, <<>>)

\* showProviders(): the list is filtered when the callback runs
showProviders(cat) ==
    Run([Content("providers") EXCEPT !.list = AvailableProviders(cat)],
        NoOptions, "show_providers", <<>>)

\* GreetingMenuState with the setChatState of the greeting left out
GreetingMenuStateUnset == NoChange

\* the state the second callback of the initial effect sets
GreetingMenuState == "main_menu"

\* AfterOrderState with the setChatState of the follow-up left out
AfterOrderStateUnset == NoChange

\* the state the follow-up of an order confirmation sets
AfterOrderState == "main_menu"

\* AfterReportState with the setChatState of the follow-up left out
AfterReportStateUnset == NoChange

\* the state the follow-up of a report confirmation sets
AfterReportState == "main_menu"

Callback(t, cat) ==
    CASE t.cb = "greeting" ->
            Run(Content("greeting"), NoOptions, NoChange,
                <<SimpleTimer("greeting_menu", 500, t.by)>>)
      [] t.cb = "greeting_menu" ->
            Run(Content("how_can_i_help"), mainMenuOptions, GreetingMenuState, <<>>)
      [] t.cb = "ask_location" ->
            Run(Content("ask_location"), NoOptions, "request_location", <<>>)
      [] t.cb = "ask_report_type" ->
            Run(Content("ask_report_type"), reportTypes, "report_type", <<>>)
      [] t.cb = "ask_prices_location" ->
            Run(Content("ask_prices_location"), NoOptions, "prices_location", <<>>)
      [] t.cb = "orders_reply" ->
            Run(Content("no_active_orders"), ordersOptions, NoChange, <<>>)
      [] t.cb = "not_understood" ->
            Run(Content("not_understood"), mainMenuOptions, NoChange, <<>>)
      [] t.cb = "location_received" ->
            Run([Content("location_received") EXCEPT !.input = t.input], NoOptions,
                NoChange, <<SimpleTimer("show_providers", 1000, t.by)>>)
      [] t.cb = "show_providers" -> showProviders(cat)
      [] t.cb = "provider_selected" ->
            Run([Content("provider_selected") EXCEPT !.name = NameOf(cat, t.provider),
                                                     !.price = PriceOf(cat, t.provider)],
                confirmOptions, "confirm_order", <<>>)
      [] t.cb = "order_confirmed" ->
            Run([Content("order_confirmed") EXCEPT !.name = NameOf(cat, t.provider),
                                                   !.price = PriceOf(cat, t.provider),
                                                   !.hasId = TRUE],
                NoOptions, "order_confirmed",
                <<SimpleTimer("after_order", 2000, t.by)>>)
      [] t.cb = "after_order" ->
            Run(Content("anything_else"), mainMenuOptions, AfterOrderState, <<>>)
      [] t.cb = "order_cancelled" ->
            Run(Content("order_cancelled"), mainMenuOptions, "main_menu", <<>>)
      [] t.cb = "ask_report_location" ->
            Run(Content("ask_report_location"), NoOptions, "report_location", <<>>)
      [] t.cb = "ask_duration" ->
            Run(Content("ask_duration"), durationOptions, "report_duration", <<>>)
      [] t.cb = "ask_affected" ->
            Run(Content("ask_affected"), NoOptions, "report_affected", <<>>)
      [] t.cb = "report_confirmed" ->
            Run([Content("report_confirmed") EXCEPT !.type = t.reportData.type,
                                                    !.duration = t.reportData.duration,
                                                    !.affected = t.affected,
                                                    !.hasId = TRUE],
                NoOptions, "report_confirmed",
                <<SimpleTimer("after_report", 1500, t.by)>>)
      [] t.cb = "after_report" ->
            Run(Content("need_water"), afterReportOptions, AfterReportState, <<>>)
      [] t.cb = "default_menu" ->
            Run(Content("how_can_i_help_default"), mainMenuOptions, "main_menu", <<>>)

(***************************************************************************)
(* The state machine.                                                      *)
(***************************************************************************)
Init ==
    /\ messages = <<>>
    /\ chatState = "welcome"
    /\ selectedProvider = 0
    /\ reportData = EmptyReport
    /\ timers = <<SimpleTimer("greeting", 500, 0)>>
    /\ mounted = TRUE
    /\ lateCalls = 0
    /\ nInputs = 0
    /\ mockProviders \in Catalogs

sIztapalapa == <<"I","z","t","a","p","a","l","a","p","a">>
sBlank == <<" ">>

\* what the user types in the sessions explored
TypedInputs == {s1, sIztapalapa, sBlank}
TurnInputs == {s1, sIztapalapa, sBlank}

\* addUserMessage(shown) followed by processUserInput(input)
HandleInput(input, shown, max) ==
    /\ mounted
    /\ nInputs < max
    /\ LET by == nInputs + 1
           e == processUserInput(chatState, input, by, selectedProvider, reportData,
                                 mockProviders)
       IN  /\ messages' = addMessage(messages, UserMessage(shown, input, by, chatState))
           /\ timers' = timers \o e.timers
           /\ selectedProvider' = e.selectedProvider
           /\ reportData' = e.reportData
    /\ nInputs' = nInputs + 1
    /\ UNCHANGED <<chatState, mounted, lateCalls, mockProviders>>

\* handleSubmit: a blank input is dropped
Submit(texts, max) ==
    \E text \in texts :
        IF trim(text) = <<>>
        THEN mounted /\ UNCHANGED vars
        ELSE HandleInput(text, text, max)

\* the most recent message that carries options: the menu the user clicks in
IsLatestMenu(i) ==
    /\ messages[i].options # NoOptions
    /\ \A k \in (i + 1)..Len(messages) : messages[k].options = NoOptions

\* handleOptionClick on a button of the latest menu
OptionClick(max) ==
    \E i \in 1..Len(messages) :
        /\ IsLatestMenu(i)
        /\ \E j \in 1..Len(messages[i].options) :
              HandleInput(messages[i].options[j].id, <<messages[i].options[j].label>>, max)

HandleSubmit == Submit(TypedInputs, MaxInputs)

HandleOptionClick == OptionClick(MaxInputs)

IsDue(i) == timers[i].rem = 0 /\ \A j \in 1..(i - 1) : timers[j].rem # 0

RemoveAt(seq, i) == SubSeq(seq, 1, i - 1) \o SubSeq(seq, i + 1, Len(seq))

\* The oldest due callback runs.  On an unmounted component the state setters are
\* called and React drops the updates; the nested setTimeout is still made.
FireTimer ==
    \E i \in 1..Len(timers) :
        /\ IsDue(i)
        /\ LET t == timers[i]
               r == Callback(t, mockProviders)
           IN  /\ timers' = RemoveAt(timers, i) \o r.then
               /\ IF mounted
                  THEN /\ messages' = addMessage(messages, BotMessage(r.content, r.options, t.by))
                       /\ chatState' = IF r.goto = NoChange THEN chatState ELSE r.goto
                       /\ UNCHANGED lateCalls
                  ELSE /\ lateCalls' = lateCalls + 1
                       /\ UNCHANGED <<messages, chatState>>
        /\ UNCHANGED <<selectedProvider, reportData, mounted, nInputs, mockProviders>>

\* TickMs milliseconds pass with no callback due
Tick ==
    /\ timers # <<>>
    /\ \A i \in 1..Len(timers) : timers[i].rem > 0
    /\ timers' = [i \in 1..Len(timers) |-> [timers[i] EXCEPT !.rem = @ - 1]]
    /\ UNCHANGED <<messages, chatState, selectedProvider, reportData, mounted,
                   lateCalls, nInputs, mockProviders>>

\* The component unmounts; the effect of line 76 returns no cleanup
Unmount ==
    /\ mounted
    /\ mounted' = FALSE
    /\ UNCHANGED <<messages, chatState, selectedProvider, reportData, timers,
                   lateCalls, nInputs, mockProviders>>

\* Sessions in which the user may send an input at any time
Next == HandleSubmit \/ HandleOptionClick \/ FireTimer \/ Tick

Spec == Init /\ [][Next]_vars

\* The same sessions, which may also end at any time
NextDispose == HandleSubmit \/ HandleOptionClick \/ FireTimer \/ Tick \/ Unmount

SpecDispose == Init /\ [][NextDispose]_vars

(***************************************************************************)
(* Turn-by-turn sessions: the user sends an input only once every reply to *)
(* the previous one has been emitted (no callback is pending).             *)
(***************************************************************************)
Idle == timers = <<>>

TurnSubmit == Idle /\ Submit(TurnInputs, MaxTurns)

TurnOptionClick == Idle /\ OptionClick(MaxTurns)

NextTurns == TurnSubmit \/ TurnOptionClick \/ FireTimer \/ Tick

SpecTurns == Init /\ [][NextTurns]_vars

(***************************************************************************)
(* A user who types the inputs of one scenario in order, each at any time: *)
(* an order with the confirmation sent twice, then the start of a report.  *)
(***************************************************************************)
Scenario == <<s1, sIztapalapa, s1, sConfirm, sConfirm, s2, s1>>

ScenarioSubmit ==
    /\ nInputs < Len(Scenario)
    /\ Submit({Scenario[nInputs + 1]}, Len(Scenario))

NextScenario == ScenarioSubmit \/ FireTimer \/ Tick

SpecScenario == Init /\ [][NextScenario]_vars

(***************************************************************************)
(* Reading the transcript.                                                 *)
(***************************************************************************)
Tpl(i) == messages[i].content.tpl

IsBot(i) == messages[i].role = "bot"

\* the positions from `from` on of the messages written from template tpl
Positions(tpl, from) == {i \in from..Len(messages) : Tpl(i) = tpl}

\* the position of the last message written from tpl, 0 when there is none
LastPosition(tpl) ==
    IF Positions(tpl, 1) = {} THEN 0
    ELSE CHOOSE i \in Positions(tpl, 1) : \A k \in Positions(tpl, 1) : k <= i

\* the strings handed to processUserInput so far, in order
InputsSoFar ==
    LET RECURSIVE Collect(_)
        Collect(i) ==
            IF i > Len(messages) THEN <<>>
            ELSE IF messages[i].role = "user"
                 THEN <<messages[i].input>> \o Collect(i + 1)
                 ELSE Collect(i + 1)
    IN  Collect(1)

\* an input has just been handed to processUserInput
InputHandled == nInputs' = nInputs + 1

(***************************************************************************)
(* C1.  No silent turns: every input handed to processUserInput is         *)
(* answered by at least one bot message, so the handling of an input       *)
(* always schedules at least one reply caused by that input (in every      *)
(* state, show_providers, report_type and report_duration included).       *)
(***************************************************************************)
C1_NoSilentTurn ==
    [][InputHandled => \E i \in 1..Len(timers') : timers'[i].by = nInputs']_vars

(***************************************************************************)
(* C2.  The pending report data and selectedProvider are never both        *)
(* non-empty.                                                              *)
(***************************************************************************)
C2_NeverBothPending == ~(selectedProvider # 0 /\ reportData # EmptyReport)

(***************************************************************************)
(* C3.  At most one order confirmation per pass through show_providers:    *)
(* after the last provider list of the transcript there is at most one     *)
(* "Pedido confirmado" message.                                            *)
(***************************************************************************)
C3_OneConfirmationPerPass ==
    LET pass == LastPosition("providers")
    IN  pass # 0 => Cardinality(Positions("order_confirmed", pass)) <= 1

(***************************************************************************)
(* C4.  An input is interpreted only once the replies of the previous      *)
(* transition have been emitted: when processUserInput runs, no callback   *)
(* is pending that still has to set the chat state or emit a reply.        *)
(***************************************************************************)
C4_InterpretedAfterDrain == [][InputHandled => timers = <<>>]_vars

(***************************************************************************)
(* C5.  Bot messages caused by different inputs are never interleaved: if  *)
(* input a was handled before input b, every bot message caused by a       *)
(* precedes every bot message caused by b.                                 *)
(***************************************************************************)
C5_NoInterleaving ==
    \A i, j \in 1..Len(messages) :
        (i < j /\ IsBot(i) /\ IsBot(j) /\ messages[i].by >= 1 /\ messages[j].by >= 1)
            => messages[i].by <= messages[j].by

(***************************************************************************)
(* C6.  Once the component is unmounted every scheduled emission is        *)
(* cancelled: no callback is pending and none runs.                        *)
(***************************************************************************)
C6_CancelledOnDispose == ~mounted => (timers = <<>> /\ lateCalls = 0)

(***************************************************************************)
(* C7.  Every change of the chat state follows an edge of the declared     *)
(* transition graph.                                                       *)
(***************************************************************************)
DeclaredEdges ==
    { <<"welcome", "main_menu">>,
      <<"main_menu", "request_location">>, <<"main_menu", "report_type">>,
      <<"main_menu", "prices_location">>,
      <<"request_location", "show_providers">>, <<"prices_location", "show_providers">>,
      <<"show_providers", "confirm_order">>, <<"confirm_order", "order_confirmed">>,
      <<"order_confirmed", "main_menu">>, <<"confirm_order", "main_menu">>,
      <<"report_type", "report_location">>, <<"report_location", "report_duration">>,
      <<"report_duration", "report_affected">>, <<"report_affected", "report_confirmed">>,
      <<"report_confirmed", "main_menu">> }

C7_DeclaredEdgesOnly ==
    [][chatState' # chatState => <<chatState, chatState'>> \in DeclaredEdges]_vars

(***************************************************************************)
(* C8.  No dead end: whenever the session waits for the user outside       *)
(* main_menu, some input is taken up (a reply is scheduled for it); without *)
(* that, no sequence of inputs can bring the session back to main_menu.    *)
(***************************************************************************)
ProbeInputs == {s1, s2, s3, s4, sConfirm, sCancel, sYes, sNo, sMenu, sIztapalapa}

C8_NoDeadEnd ==
    (mounted /\ Idle /\ chatState # "main_menu")
        => \E input \in ProbeInputs :
              processUserInput(chatState, input, nInputs + 1, selectedProvider,
                               reportData, mockProviders).timers # <<>>

(***************************************************************************)
(* C9.  In a turn-by-turn session a completed report sub-flow produces     *)
(* exactly one report confirmation and ends in main_menu: after the last   *)
(* report-type menu there is never more than one "Reporte registrado";     *)
(* and once the household question of that sub-flow has been answered and  *)
(* the replies are out, there is exactly one, the follow-up comes right    *)
(* after it, and the session is in main_menu until the next input.         *)
(***************************************************************************)
C9_ReportCompletesOnce ==
    LET start == LastPosition("ask_report_type")
        asked == LastPosition("ask_affected")
        done == Positions("report_confirmed", start)
    IN  start # 0 =>
          /\ Cardinality(done) <= 1
          /\ (asked > start /\ asked < Len(messages) /\ Idle) =>
                /\ Cardinality(done) = 1
                /\ \A d \in done :
                      /\ d = asked + 2
                      /\ Len(messages) > d
                      /\ Tpl(d + 1) = "need_water"
                      /\ (Len(messages) = d + 1 => chatState = "main_menu")

C9_Witness ==
    /\ Idle
    /\ LastPosition("ask_report_type") # 0
    /\ LastPosition("report_confirmed") = Len(messages) - 1
    /\ Tpl(Len(messages)) = "need_water"
    /\ chatState = "main_menu"

(***************************************************************************)
(* C10.  In a turn-by-turn session whose inputs are "1", "Iztapalapa",     *)
(* "1", "confirm", with at least one available provider, the transcript    *)
(* ends with the order confirmation (a generated id, the name and the      *)
(* price of the first available provider) followed by the main menu, and   *)
(* the session is in main_menu.                                            *)
(***************************************************************************)
OrderScenario == <<s1, sIztapalapa, s1, sConfirm>>

C10_Premise ==
    /\ InputsSoFar = OrderScenario
    /\ AvailableProviders(mockProviders) # <<>>
    /\ Idle

C10_OrderScenario ==
    C10_Premise =>
        LET n == Len(messages)
            first == mockProviders[AvailableProviders(mockProviders)[1]]
        IN  /\ chatState = "main_menu"
            /\ Tpl(n) = "anything_else"
            /\ messages[n].options = mainMenuOptions
            /\ Tpl(n - 1) = "order_confirmed"
            /\ messages[n - 1].content.hasId
            /\ messages[n - 1].content.name = first.name
            /\ messages[n - 1].content.price = first.pricePerLiter
            /\ Cardinality(Positions("order_confirmed", 1)) = 1

C10_Witness == C10_Premise /\ chatState = "main_menu"

(***************************************************************************)
(* Probing sessions: turn by turn, the user types the inputs that lead to  *)
(* one of the states that wait for an input, and then one input of a       *)
(* wider set.                                                              *)
(***************************************************************************)
s5 == <<"5">>
s0 == <<"0">>
sMinus3 == <<"-","3">>
s2Pipas == <<"2"," ","p","i","p","a","s">>
sAbc == <<"a","b","c">>
sHola == <<"h","o","l","a">>
sPedidos == <<"m","i","s"," ","p","e","d","i","d","o","s">>
sReportarUnProblema ==
    <<"R","e","p","o","r","t","a","r"," ","u","n"," ","p","r","o","b","l","e","m","a">>
sReportarAgua ==
    <<"r","e","p","o","r","t","a","r"," ","f","a","l","t","a"," ","d","e"," ",
      "a","g","u","a">>
sSi == <<"s","í">>

Paths ==
    { <<>>, <<s1>>, <<s3>>, <<s1, sIztapalapa>>, <<s1, sIztapalapa, s1>>,
      <<s1, sIztapalapa, s1, sCancel>>, <<s2>>, <<s2, s1>>, <<s2, s1, sIztapalapa>>, <<s2, s1, sIztapalapa, s1>> }

ProbeTexts ==
    { s1, s2, s3, s4, s5, s0, sMinus3, s2Pipas, sAbc, sHola, sIztapalapa, sPedidos,
      sReportarUnProblema, sReportarAgua, sSi, sConfirm, sCancel, sYes, sNo, sMenu }

IsPrefix(a, b) == Len(a) <= Len(b) /\ SubSeq(b, 1, Len(a)) = a

LongestPath == CHOOSE n \in {Len(p) : p \in Paths} : \A q \in Paths : Len(q) <= n

ProbeSubmit ==
    /\ Idle
    /\ \E text \in ProbeTexts :
          /\ \/ \E p \in Paths : IsPrefix(InputsSoFar \o <<text>>, p)
             \/ InputsSoFar \in Paths
          /\ Submit({text}, LongestPath + 1)

NextProbe == ProbeSubmit \/ FireTimer \/ Tick

SpecProbe == Init /\ [][NextProbe]_vars

\* callbacks that are due run, and time passes
TimersRun == WF_vars(FireTimer) /\ WF_vars(Tick)

SpecProbeLive == SpecProbe /\ TimersRun

(***************************************************************************)
(* Short sessions in which the user may send an input at any time, the     *)
(* first second after the mount included.                                  *)
(***************************************************************************)
MaxEarly == 2

EarlySubmit == Submit(TypedInputs, MaxEarly)

EarlyOptionClick == OptionClick(MaxEarly)

NextEarly == EarlySubmit \/ EarlyOptionClick \/ FireTimer \/ Tick

SpecEarlyLive == Init /\ [][NextEarly]_vars /\ TimersRun

(***************************************************************************)
(* C11.  In show_providers with n available providers only a number in     *)
(* 1..n advances the session (the confirmation question is scheduled); for *)
(* any other input, a text that starts with digits included,               *)
(* selectedProvider is unchanged, the confirmation question is not         *)
(* scheduled and a reply (the re-prompt) is scheduled.                     *)
(***************************************************************************)
\* the text is a decimal numeral and nothing else
IsNumeral(s) == s # <<>> /\ \A i \in 1..Len(s) : IsDigit(s[i])

\* the callbacks the step has scheduled for the input it handled
ScheduledNow == {timers'[j].cb : j \in {k \in 1..Len(timers') : timers'[k].by = nInputs'}}

C11_OnlyListedNumbers ==
    [][(InputHandled /\ chatState = "show_providers") =>
          LET input == messages'[Len(messages')].input
              n == Len(AvailableProviders(mockProviders))
          IN  IF IsNumeral(input) /\ InRange(parseInt(input), 1, n)
              THEN ScheduledNow = {"provider_selected"}
              ELSE /\ selectedProvider' = selectedProvider
                   /\ "provider_selected" \notin ScheduledNow
                   /\ ScheduledNow # {}]_vars

(***************************************************************************)
(* C12.  Whenever the session is in main_menu after an input was handled   *)
(* in confirm_order (a confirmation or a cancellation), selectedProvider   *)
(* is null.                                                                *)
(***************************************************************************)
\* some input of the transcript was handled in the given state
HandledIn(state) ==
    \E i \in 1..Len(messages) : messages[i].role = "user" /\ messages[i].at = state

C12_ProviderCleared ==
    (chatState = "main_menu" /\ HandledIn("confirm_order")) => selectedProvider = 0

(***************************************************************************)
(* C13.  The pending report data holds a type, a duration or an affected   *)
(* count only while the session is in one of the report states; in         *)
(* main_menu in particular it is empty.                                    *)
(***************************************************************************)
ReportStates ==
    {"report_type", "report_location", "report_duration", "report_affected",
     "report_confirmed"}

C13_ReportDataOnlyInFlow == reportData # EmptyReport => chatState \in ReportStates

(***************************************************************************)
(* C14.  The confirmation states are transient: in the transcript every    *)
(* follow-up menu comes after the summary of the same input, and once the  *)
(* session is in order_confirmed or report_confirmed it reaches main_menu  *)
(* with no further input.                                                  *)
(***************************************************************************)
ConfirmationStates == {"order_confirmed", "report_confirmed"}

\* the message at position i follows a message from template tpl with the same cause
ComesAfter(i, tpl) ==
    \E k \in 1..(i - 1) : Tpl(k) = tpl /\ messages[k].by = messages[i].by

SummaryBeforeFollowUp ==
    \A i \in 1..Len(messages) :
        /\ Tpl(i) = "anything_else" => ComesAfter(i, "order_confirmed")
        /\ Tpl(i) = "need_water" => ComesAfter(i, "report_confirmed")

C14_ConfirmationsTransient ==
    /\ []SummaryBeforeFollowUp
    /\ \A n \in 0..(LongestPath + 1) :
          (chatState \in ConfirmationStates /\ nInputs = n)
              ~> (chatState = "main_menu" /\ nInputs = n)

C14_Witness ==
    /\ chatState = "main_menu"
    /\ Len(messages) >= 2
    /\ <<Tpl(Len(messages) - 1), Tpl(Len(messages))>>
          \in {<<"order_confirmed", "anything_else">>, <<"report_confirmed", "need_water">>}

(***************************************************************************)
(* C15.  A session starts in welcome; the state is never set back to       *)
(* welcome once it has been left; and eventually the greeting and then the *)
(* main menu are in the transcript and the session is in main_menu.        *)
(***************************************************************************)
GreetingThenMenu ==
    \E i \in 1..Len(messages) :
        /\ Tpl(i) = "greeting"
        /\ \E k \in (i + 1)..Len(messages) :
              Tpl(k) = "how_can_i_help" /\ messages[k].options = mainMenuOptions

C15_WelcomeLeftOnce ==
    /\ chatState = "welcome"
    /\ [][chatState # "welcome" => chatState' # "welcome"]_vars
    /\ <>(chatState = "main_menu" /\ GreetingThenMenu)

\* the user sent an input before the greeting was over
C15_Witness ==
    /\ HandledIn("welcome")
    /\ chatState = "main_menu"
    /\ GreetingThenMenu

(***************************************************************************)
(* Replies in the transcript.                                              *)
(***************************************************************************)
\* the user message at position i was handled in the given state
UserAt(i, state) == messages[i].role = "user" /\ messages[i].at = state

\* the bot messages caused by input number n, and the callbacks it still has pending
RepliesTo(n) == {k \in 1..Len(messages) : IsBot(k) /\ messages[k].by = n}
PendingFor(n) == {j \in 1..Len(timers) : timers[j].by = n}

\* one bot message is or will be emitted for input number n
OneReply(n) == Cardinality(RepliesTo(n)) + Cardinality(PendingFor(n)) = 1

\* the user message at position i is the latest input and its replies are out
Settled(i) == messages[i].by = nInputs /\ PendingFor(nInputs) = {}

(***************************************************************************)
(* C16.  An input handled in main_menu that is none of the ids 1-4 and     *)
(* contains none of the keywords pedir, agua, reportar, problema, precios, *)
(* pedidos changes neither selectedProvider nor the report data, gets      *)
(* exactly one bot message, which carries the four main-menu options, and  *)
(* leaves the session in main_menu.                                        *)
(***************************************************************************)
MainMenuIds == {s1, s2, s3, s4}

MainMenuKeywords == {kwPedir, kwAgua, kwReportar, kwProblema, kwPrecios, kwPedidos}

Unregistered(input) ==
    /\ input \notin MainMenuIds
    /\ \A kw \in MainMenuKeywords : ~includes(toLowerCase(input), kw)

MenuReEmitted ==
    \A i \in 1..Len(messages) :
        (UserAt(i, "main_menu") /\ Unregistered(messages[i].input)) =>
            /\ OneReply(messages[i].by)
            /\ \A k \in RepliesTo(messages[i].by) :
                  messages[k].options = mainMenuOptions /\ Len(messages[k].options) = 4
            /\ messages[i].by = nInputs => chatState = "main_menu"

C16_UnrecognisedInMainMenu ==
    /\ []MenuReEmitted
    /\ [][(InputHandled /\ chatState = "main_menu"
                        /\ Unregistered(messages'[Len(messages')].input))
            => (selectedProvider' = selectedProvider /\ reportData' = reportData)]_vars

\* an unregistered text answered in main_menu while a provider is still selected
C16_Witness ==
    /\ selectedProvider # 0
    /\ \E i \in 1..Len(messages) :
          /\ UserAt(i, "main_menu") /\ Unregistered(messages[i].input)
          /\ Settled(i)
          /\ RepliesTo(messages[i].by) # {}

(***************************************************************************)
(* C17.  In main_menu the input "1" gets one bot message, the location     *)
(* prompt, and moves the session to request_location; "2" gets one bot     *)
(* message with the four report-type options and moves it to report_type;  *)
(* "3" gets one bot message, the location prompt of the price flow, and    *)
(* moves it to prices_location.                                            *)
(***************************************************************************)
ExpectedOfId(input) ==
    CASE input = s1 ->
            [tpl |-> "ask_location", options |-> NoOptions, state |-> "request_location"]
      [] input = s2 ->
            [tpl |-> "ask_report_type", options |-> reportTypes, state |-> "report_type"]
      [] input = s3 ->
            [tpl |-> "ask_prices_location", options |-> NoOptions,
             state |-> "prices_location"]

C17_ExactIds ==
    \A i \in 1..Len(messages) :
        (UserAt(i, "main_menu") /\ messages[i].input \in {s1, s2, s3}) =>
            LET e == ExpectedOfId(messages[i].input)
            IN  /\ OneReply(messages[i].by)
                /\ \A k \in RepliesTo(messages[i].by) :
                      Tpl(k) = e.tpl /\ messages[k].options = e.options
                /\ Settled(i) => chatState = e.state
                /\ Len(reportTypes) = 4

C17_Witness ==
    /\ chatState = "report_type"
    /\ \E i \in 1..Len(messages) :
          /\ UserAt(i, "main_menu") /\ messages[i].input = s2 /\ Settled(i)
          /\ \E k \in 1..(i - 1) : UserAt(k, "main_menu") /\ messages[k].input = s1

(***************************************************************************)
(* C18.  A text handled in main_menu that contains 'reportar' or           *)
(* 'problema' (in any case) is answered with one bot message, the          *)
(* four-option report-type menu, and moves the session to report_type,     *)
(* whatever else the text contains.                                        *)
(***************************************************************************)
MentionsReport(input) ==
    \/ includes(toLowerCase(input), kwReportar)
    \/ includes(toLowerCase(input), kwProblema)

C18_ReportKeywordWins ==
    \A i \in 1..Len(messages) :
        (UserAt(i, "main_menu") /\ MentionsReport(messages[i].input)) =>
            /\ OneReply(messages[i].by)
            /\ \A k \in RepliesTo(messages[i].by) :
                  Tpl(k) = "ask_report_type" /\ messages[k].options = reportTypes
            /\ Settled(i) => chatState = "report_type"

(***************************************************************************)
(* C19.  Once the reply to option 4, or to a text containing 'pedidos',    *)
(* handled in main_menu is out, the session is in a state of its own: not  *)
(* main_menu, and none of the other three successors of main_menu.         *)
(***************************************************************************)
AsksForOrders(input) == input = s4 \/ includes(toLowerCase(input), kwPedidos)

C19_OrdersMenuEntered ==
    \A i \in 1..Len(messages) :
        (UserAt(i, "main_menu") /\ AsksForOrders(messages[i].input) /\ Settled(i)) =>
            chatState \notin {"main_menu", "request_location", "report_type",
                              "prices_location"}

(***************************************************************************)
(* C20.  Every input handled in request_location or in prices_location is  *)
(* taken as the location: its replies are the acknowledgement, which       *)
(* quotes the input, and then the provider list, nothing else; and the     *)
(* session then reaches show_providers with no further input.              *)
(***************************************************************************)
LocationStates == {"request_location", "prices_location"}

\* the latest input was handled in a state that asks for a location
LocationSent ==
    \E i \in 1..Len(messages) :
        messages[i].role = "user" /\ messages[i].by = nInputs
                                  /\ messages[i].at \in LocationStates

LocationAccepted ==
    \A i \in 1..Len(messages) :
        (messages[i].role = "user" /\ messages[i].at \in LocationStates) =>
            LET replies == RepliesTo(messages[i].by)
                acks == {k \in replies : Tpl(k) = "location_received"}
                lists == {k \in replies : Tpl(k) = "providers"}
            IN  /\ replies = acks \cup lists
                /\ Cardinality(acks) <= 1 /\ Cardinality(lists) <= 1
                /\ \A k \in acks : messages[k].content.input = messages[i].input
                /\ \A k \in lists : \E a \in acks : a < k
                /\ Cardinality(PendingFor(messages[i].by)) =
                      (IF lists = {} THEN 1 ELSE 0)
                /\ Settled(i) => (lists # {} /\ chatState = "show_providers")

C20_LocationAlwaysAccepted ==
    /\ []LocationAccepted
    /\ \A n \in 1..(LongestPath + 1) :
          (LocationSent /\ nInputs = n) ~> (chatState = "show_providers" /\ nInputs = n)

\* a text that is no place name, sent in prices_location, has been answered
C20_Witness ==
    /\ chatState = "show_providers"
    /\ \E i \in 1..Len(messages) :
          UserAt(i, "prices_location") /\ messages[i].input = s5 /\ Settled(i)

(***************************************************************************)
(* C21.  An input handled in report_affected that holds no number (such as *)
(* "abc") is not rejected: the affected count recorded is 1, the report    *)
(* confirmation is scheduled and, when emitted, shows 1 affected           *)
(* household.                                                              *)
(***************************************************************************)
\* the text has no digit in it
NoDigits(s) == \A i \in 1..Len(s) : ~IsDigit(s[i])

ConfirmedWithOne ==
    \A i \in 1..Len(messages) :
        (UserAt(i, "report_affected") /\ NoDigits(messages[i].input)) =>
            LET done == {k \in RepliesTo(messages[i].by) : Tpl(k) = "report_confirmed"}
            IN  /\ \A k \in done : messages[k].content.affected = 1
                /\ Settled(i) => done # {}

C21_DefaultsToOne ==
    /\ []ConfirmedWithOne
    /\ [][(InputHandled /\ chatState = "report_affected"
                        /\ NoDigits(messages'[Len(messages')].input))
            => (reportData'.affected = 1 /\ ScheduledNow = {"report_confirmed"})]_vars

C21_Witness ==
    \E i \in 1..Len(messages) :
        /\ UserAt(i, "report_affected") /\ messages[i].input = sAbc /\ Settled(i)
        /\ \E k \in RepliesTo(messages[i].by) :
              Tpl(k) = "report_confirmed" /\ messages[k].content.affected = 1

(***************************************************************************)
(* C22.  The transcript is append-only: a step either leaves the message   *)
(* list as it is or adds one message at its end, every message already in  *)
(* it staying where and as it was.                                         *)
(***************************************************************************)
C22_AppendOnly ==
    [][\/ messages' = messages
       \/ /\ Len(messages') = Len(messages) + 1
          /\ SubSeq(messages', 1, Len(messages)) = messages]_vars

\* user and bot messages have been added in turn
C22_Witness ==
    \E i \in 1..Len(messages) :
        /\ IsBot(i)
        /\ \E k \in (i + 1)..Len(messages) :
              /\ messages[k].role = "user"
              /\ \E m \in (k + 1)..Len(messages) : IsBot(m)

(***************************************************************************)
(* C23.  The report sub-flow is sequential: from report_type,              *)
(* report_location, report_duration and report_affected the state only     *)
(* ever changes to the next state of the flow.  An input handled in        *)
(* report_type advances (the location question is scheduled) exactly when  *)
(* its number is in 1..4, and then only the type is recorded; one handled  *)
(* in report_duration advances exactly when its number is in 1..3, and     *)
(* then only the duration is recorded; an input that does not advance      *)
(* records nothing; one handled in report_affected records the affected    *)
(* count only.                                                             *)
(***************************************************************************)
ReportFlow ==
    <<"report_type", "report_location", "report_duration", "report_affected",
      "report_confirmed">>

\* the state that follows the given one in the report sub-flow
NextInFlow(state) ==
    ReportFlow[1 + CHOOSE k \in 1..(Len(ReportFlow) - 1) : ReportFlow[k] = state]

\* the number the text starts with is in lo..hi
NumberIn(input, lo, hi) == InRange(parseInt(input), lo, hi)

MenuStepRecords(state, hi, cb, field) ==
    (InputHandled /\ chatState = state) =>
        LET input == messages'[Len(messages')].input
        IN  IF NumberIn(input, 1, hi)
            THEN /\ ScheduledNow = {cb}
                 /\ reportData'[field] = parseInt(input).val
                 /\ \A f \in DOMAIN reportData \ {field} : reportData'[f] = reportData[f]
            ELSE ScheduledNow = {} /\ reportData' = reportData

LocationsTyped ==
    {messages[i].input : i \in {k \in 1..Len(messages) : UserAt(k, "report_location")}}

C24_ReportCarriesLocation ==
    /\ [][(InputHandled /\ chatState = "report_location") =>
             /\ "location" \in DOMAIN reportData'
             /\ reportData'["location"] = messages'[Len(messages')].input]_vars
    /\ [](\A k \in 1..Len(messages) :
             Tpl(k) = "report_confirmed" => messages[k].content.input \in LocationsTyped)

(***************************************************************************)
(* Sessions during which the catalog changes: turn by turn the user asks   *)
(* for water, gives a location and answers the provider list with a        *)
(* number, while the owner of the catalog may change the availability of   *)
(* the providers at any time.                                              *)
(***************************************************************************)
CatalogChange ==
    /\ \E cat \in Catalogs \ {mockProviders} : mockProviders' = cat
    /\ UNCHANGED <<messages, chatState, selectedProvider, reportData, timers, mounted,
                   lateCalls, nInputs>>

SelectionPath == <<s1, sIztapalapa>>

SelectionTexts == {s1, s2, s5}

CatalogSubmit ==
    /\ Idle
    /\ \E text \in SelectionTexts \cup {sIztapalapa} :
          /\ \/ IsPrefix(InputsSoFar \o <<text>>, SelectionPath)
             \/ InputsSoFar = SelectionPath /\ text \in SelectionTexts
          /\ Submit({text}, Len(SelectionPath) + 1)

NextCatalog == CatalogSubmit \/ FireTimer \/ Tick \/ CatalogChange

SpecCatalog == Init /\ [][NextCatalog]_vars

(***************************************************************************)
(* C25.  A number handled in show_providers is looked up in the list of    *)
(* the providers available when it is handled: if it is within that list,  *)
(* selectedProvider becomes the provider at that place, which is available *)
(* at that moment; if it is beyond it, nothing is selected and nothing     *)
(* else happens.                                                           *)
(***************************************************************************)
\* the list of the last provider-list message of the transcript
ListShown ==
    IF LastPosition("providers") = 0 THEN <<>>
    ELSE messages[LastPosition("providers")].content.list

BranchOfOption(state, id) ==
    CASE state = "main_menu" /\ id = s1 -> "ask_location"
      [] state = "main_menu" /\ id = s2 -> "ask_report_type"
      [] state = "main_menu" /\ id = s3 -> "ask_prices_location"
      [] state = "main_menu" /\ id = s4 -> "orders_reply"
      [] state = "confirm_order" /\ id = sConfirm -> "order_confirmed"
      [] state = "confirm_order" /\ id = sCancel -> "order_cancelled"

OfferedIn(state) ==
    IF state = "main_menu" THEN {mainMenuOptions[k].id : k \in 1..Len(mainMenuOptions)}
    ELSE IF state = "confirm_order"
         THEN {confirmOptions[k].id : k \in 1..Len(confirmOptions)}
         ELSE {}

C26_OptionIdWins ==
    [][(InputHandled /\ messages'[Len(messages')].input \in OfferedIn(chatState)) =>
          ScheduledNow = {BranchOfOption(chatState, messages'[Len(messages')].input)}]_vars

C26_Witness ==
    \E i \in 1..Len(messages) :
        /\ UserAt(i, "confirm_order") /\ messages[i].input = sConfirm
        /\ \E k \in RepliesTo(messages[i].by) : Tpl(k) = "order_confirmed"
        /\ \E k \in 1..(i - 1) : UserAt(k, "main_menu") /\ messages[k].input = s1

(***************************************************************************)
(* C27.  Every option the bot offers is understood when chosen: an input   *)
(* that is the id of an option of the latest menu of the transcript is     *)
(* never answered with the "No entendí tu mensaje" fallback.               *)
(***************************************************************************)
\* the positions before i of the messages that carry options
MenusBefore(i) == {j \in 1..(i - 1) : messages[j].options # NoOptions}

\* the user message at position i is the id of an option of the latest menu before it
ChoosesOffered(i) ==
    /\ messages[i].role = "user"
    /\ MenusBefore(i) # {}
    /\ LET j == CHOOSE j \in MenusBefore(i) : \A k \in MenusBefore(i) : k <= j
       IN  \E k \in 1..Len(messages[j].options) :
              messages[j].options[k].id = messages[i].input

C27_OfferedOptionsUnderstood ==
    \A i \in 1..Len(messages) :
        ChoosesOffered(i) =>
            \A r \in RepliesTo(messages[i].by) : Tpl(r) # "not_understood"

(***************************************************************************)
(* C29.  The affected count recorded in the pending report, once there is  *)
(* one, and the count shown in any report confirmation are at least 1.     *)
(***************************************************************************)
C29_AffectedAtLeastOne ==
    /\ reportData.affected >= 0
    /\ \A k \in 1..Len(messages) :
          Tpl(k) = "report_confirmed" => messages[k].content.affected >= 1

(***************************************************************************)
(* A user who orders twice, the second provider of the list the second     *)
(* time, and sends each input at any time, before the replies to the       *)
(* previous ones included.                                                 *)
(***************************************************************************)
TwoOrders == <<s1, sIztapalapa, s1, sConfirm, s1, sIztapalapa, s2, sConfirm>>

TwoOrdersSubmit ==
    /\ nInputs < Len(TwoOrders)
    /\ Submit({TwoOrders[nInputs + 1]}, Len(TwoOrders))

NextTwoOrders == TwoOrdersSubmit \/ FireTimer \/ Tick

SpecTwoOrders == Init /\ [][NextTwoOrders]_vars

(***************************************************************************)
(* C28.  Whenever the session is in confirm_order, selectedProvider is not *)
(* null; and every order confirmation names, with its price, the provider  *)
(* chosen by the latest input accepted in show_providers before the        *)
(* confirming input, however inputs and callbacks interleave.              *)
(***************************************************************************)
\* the position of the user message that is input number n
InputPosition(n) == CHOOSE i \in 1..Len(messages) : messages[i].role = "user" /\ messages[i].by = n

\* the positions before i of the inputs that chose a provider in show_providers
SelectionsBefore(i) ==
    {j \in 1..(i - 1) : /\ UserAt(j, "show_providers")
                        /\ ChosenProvider(messages[j].input, mockProviders) # 0}

NamesLatestSelection(k) ==
    LET sel == SelectionsBefore(InputPosition(messages[k].by))
        j == CHOOSE j \in sel : \A m \in sel : m <= j
        p == ChosenProvider(messages[j].input, mockProviders)
    IN  /\ sel # {}
        /\ messages[k].content.name = mockProviders[p].name
        /\ messages[k].content.price = mockProviders[p].pricePerLiter

C28_ConfirmsSelectedProvider ==
    /\ chatState = "confirm_order" => selectedProvider # 0
    /\ \A k \in 1..Len(messages) : Tpl(k) = "order_confirmed" => NamesLatestSelection(k)

\* two orders confirmed, with different providers
C28_Witness ==
    \E k \in 1..Len(messages) :
        /\ Tpl(k) = "order_confirmed"
        /\ \E m \in (k + 1)..Len(messages) :
              /\ Tpl(m) = "order_confirmed"
              /\ messages[m].content.name # messages[k].content.name

(***************************************************************************)
(* A user who files two reports with different answers: the request and    *)
(* the type of the first one turn by turn, and from then on each input at  *)
(* any time, before the replies to the previous ones included.             *)
(***************************************************************************)
PatientInputs == <<s2, s1>>

FirstReport == PatientInputs \o <<sIztapalapa, s1, s5>>

SecondReport == <<s2, s3, sIztapalapa, s2, s1>>

TwoReports == FirstReport \o SecondReport

TwoReportsSubmit ==
    /\ nInputs < Len(TwoReports)
    /\ nInputs < Len(PatientInputs) => Idle
    /\ Submit({TwoReports[nInputs + 1]}, Len(TwoReports))

NextTwoReports == TwoReportsSubmit \/ FireTimer \/ Tick

SpecTwoReports == Init /\ [][NextTwoReports]_vars

(***************************************************************************)
(* C30.  Every report confirmation shows the type and the duration chosen  *)
(* by the latest inputs accepted in report_type and in report_duration     *)
(* before the input that caused it; and when a new report was asked for in *)
(* main_menu after the input that caused an earlier confirmation, those    *)
(* inputs come after that earlier one: nothing of an earlier report shows  *)
(* in a later one, however inputs and callbacks interleave.                *)
(***************************************************************************)
\* the positions before i of the inputs accepted in report_type, in report_duration
TypesBefore(i) ==
    {j \in 1..(i - 1) : UserAt(j, "report_type") /\ ChosenReportType(messages[j].input) # 0}
DurationsBefore(i) ==
    {j \in 1..(i - 1) : UserAt(j, "report_duration") /\ ChosenDuration(messages[j].input) # 0}

Latest(S) == CHOOSE j \in S : \A m \in S : m <= j

\* a report was asked for in main_menu by an input between positions a and b
ReportAskedBetween(a, b) ==
    \E e \in (a + 1)..(b - 1) :
        UserAt(e, "main_menu") /\ MainMenuBranch(messages[e].input) = "ask_report_type"

ShowsOwnChoices(k) ==
    LET i == InputPosition(messages[k].by)
        ts == TypesBefore(i)
        ds == DurationsBefore(i)
    IN  /\ ts # {} /\ ds # {}
        /\ messages[k].content.type = ChosenReportType(messages[Latest(ts)].input)
        /\ messages[k].content.duration = ChosenDuration(messages[Latest(ds)].input)
        /\ \A e \in 1..(k - 1) :
              (Tpl(e) = "report_confirmed"
                  /\ ReportAskedBetween(InputPosition(messages[e].by), i))
              => (Latest(ts) > InputPosition(messages[e].by)
                  /\ Latest(ds) > InputPosition(messages[e].by))

C30_NoLeftoverInConfirmation ==
    \A k \in 1..Len(messages) : Tpl(k) = "report_confirmed" => ShowsOwnChoices(k)

\* two reports confirmed, the second with another type and another duration
C30_Witness ==
    \E k \in 1..Len(messages) :
        /\ Tpl(k) = "report_confirmed"
        /\ \E m \in (k + 1)..Len(messages) :
              /\ Tpl(m) = "report_confirmed"
              /\ messages[m].content.type # messages[k].content.type
              /\ messages[m].content.duration # messages[k].content.duration

====
